---- MODULE Spec2Model ----
(***************************************************************************)
(* A model of modules/upgradinatorr.py: the selection filter               *)
(* (filter_media), the queue reconciliation (process_queue), one           *)
(* instance's run (process_instance), the report (print_output,            *)
(* notification) and the runner (main).                                     *)
(*                                                                         *)
(* Python dicts are functions from keys to values; None, {} and [] are     *)
(* the empty function, so "if d:" is d # None and d['k'] raises when k is   *)
(* not in DOMAIN d.  The StARR client (util/arrpy) is not part of the       *)
(* module: its calls are modelled by the results they can hand back and,   *)
(* for add_tags, by its effect on the server's tag data.                    *)
(***************************************************************************)
EXTENDS Integers, Sequences, FiniteSets, TLC

VARIABLES
    \* ---- filter_media called on its own
    media_in, tag_in, count_in, filter_out, filter_called,
    \* ---- process_queue called on its own, then on the same queue with one
    \* ---- of its records appended again
    queue_in, type_in, ids_in, queue_out, queue_called, dup_in, dup_out, dup_called,
    \* ---- configuration (module globals, fixed for the life of the model)
    dry_run, instances, settings,
    \* ---- the servers' tag data: instance -> media id -> set of tag ids
    tags,
    \* ---- main
    pc, run, todo, final_output_dict, error, printed, fields, notified,
    \* ---- process_instance's locals
    cur, media_dict, filtered_media_dict, response, searched, ready,
    queue_dict, output_dict,
    \* ---- history: client calls of this run, selections of all runs
    calls, batches

filterVars == <<media_in, tag_in, count_in, filter_out, filter_called>>
queueVars  == <<queue_in, type_in, ids_in, queue_out, queue_called,
                dup_in, dup_out, dup_called>>
cfgVars    == <<dry_run, instances, settings>>
mainVars   == <<pc, run, todo, final_output_dict, error, printed, fields, notified>>
localVars  == <<cur, media_dict, filtered_media_dict, response, searched, ready,
                queue_dict, output_dict>>
histVars   == <<calls, batches>>
vars == <<filterVars, queueVars, cfgVars, tags, mainVars, localVars, histVars>>

-----------------------------------------------------------------------------
(* Bounds *)

MaxLen   == 3    \* longest item list handed to filter_media on its own
MaxQLen  == 2    \* longest queue handed to process_queue on its own
MaxRuns  == 3    \* invocations of the script against the same servers

-----------------------------------------------------------------------------
(* Python values *)

None == [k \in {} |-> 0]

Get(d, k, default) == IF k \in DOMAIN d THEN d[k] ELSE default

Range(s) == {s[i] : i \in DOMAIN s}

RECURSIVE Orderings(_)
Orderings(S) ==
    IF S = {} THEN {<<>>}
    ELSE UNION {{<<e>> \o t : t \in Orderings(S \ {e})} : e \in S}

-----------------------------------------------------------------------------
(* filter_media *)

AllowedStatus == {"continuing", "airing", "ended", "canceled", "released"}

\* the skip condition removed: tagged items are selected again
RECURSIVE filter_loop_keeps_tagged(_, _, _, _, _, _)
filter_loop_keeps_tagged(media, tag_id, count, i, filtered, filter_count) ==
    IF i > Len(media) \/ filter_count = count THEN filtered
    ELSE IF media[i].monitored = FALSE \/ media[i].status \notin AllowedStatus
         THEN filter_loop_keeps_tagged(media, tag_id, count, i + 1, filtered, filter_count)
         ELSE filter_loop_keeps_tagged(media, tag_id, count, i + 1,
                                       Append(filtered, media[i]), filter_count + 1)

filter_media_keeps_tagged(media, tag_id, count) ==
    filter_loop_keeps_tagged(media, tag_id, count, 1, <<>>, 0)

\* the monitored test removed: unmonitored items are selected
RECURSIVE filter_loop_keeps_unmonitored(_, _, _, _, _, _)
filter_loop_keeps_unmonitored(media, tag_id, count, i, filtered, filter_count) ==
    IF i > Len(media) \/ filter_count = count THEN filtered
    ELSE IF tag_id \in media[i].tags \/ media[i].status \notin AllowedStatus
         THEN filter_loop_keeps_unmonitored(media, tag_id, count, i + 1, filtered,
                                            filter_count)
         ELSE filter_loop_keeps_unmonitored(media, tag_id, count, i + 1,
                                            Append(filtered, media[i]), filter_count + 1)

filter_media_keeps_unmonitored(media, tag_id, count) ==
    filter_loop_keeps_unmonitored(media, tag_id, count, 1, <<>>, 0)

\* the count test made after the append of the next item: one item too many
RECURSIVE filter_loop_late_break(_, _, _, _, _, _)
filter_loop_late_break(media, tag_id, count, i, filtered, filter_count) ==
    IF i > Len(media) \/ filter_count > count THEN filtered
    ELSE IF tag_id \in media[i].tags \/ media[i].monitored = FALSE
            \/ media[i].status \notin AllowedStatus
         THEN filter_loop_late_break(media, tag_id, count, i + 1, filtered, filter_count)
         ELSE filter_loop_late_break(media, tag_id, count, i + 1,
                                     Append(filtered, media[i]), filter_count + 1)

filter_media_late_break(media, tag_id, count) ==
    filter_loop_late_break(media, tag_id, count, 1, <<>>, 0)

\* the for loop of filter_media from its i-th item on
RECURSIVE filter_loop(_, _, _, _, _, _)
filter_loop(media, tag_id, count, i, filtered, filter_count) ==
    IF i > Len(media) THEN filtered
    ELSE IF filter_count = count THEN filtered
    ELSE IF tag_id \in media[i].tags \/ media[i].monitored = FALSE
            \/ media[i].status \notin AllowedStatus
         THEN filter_loop(media, tag_id, count, i + 1, filtered, filter_count)
         ELSE filter_loop(media, tag_id, count, i + 1,
                          Append(filtered, media[i]), filter_count + 1)

filter_media(media, tag_id, count) ==
    filter_loop(media, tag_id, count, 1, <<>>, 0)

-----------------------------------------------------------------------------
(* process_queue *)

id_type(instance_type) ==
    IF instance_type = "radarr" THEN "movieId" ELSE "seriesId"

\* the append of the for loop: the association made from one queue record
queue_entry(item, media_id) ==
    [download_id |-> item.downloadId,
     media_id |-> media_id,
     torrent |-> item.title,
     torrent_custom_format_score |-> item.customFormatScore]

\* the for loop of process_queue from its i-th record on
RECURSIVE queue_loop(_, _, _, _, _)
queue_loop(records, instance_type, media_ids, i, acc) ==
    IF i > Len(records) THEN acc
    ELSE LET media_id == records[i][id_type(instance_type)] IN
         IF media_id \notin Range(media_ids)
         THEN queue_loop(records, instance_type, media_ids, i + 1, acc)
         ELSE queue_loop(records, instance_type, media_ids, i + 1,
                         Append(acc, queue_entry(records[i], media_id)))

\* the membership test removed: every record is kept
queue_list_unfiltered(queue, instance_type, media_ids) ==
    [i \in 1..Len(queue.records) |->
        queue_entry(queue.records[i], queue.records[i][id_type(instance_type)])]

\* queue_dict before the duplicates are removed
queue_list(queue, instance_type, media_ids) ==
    queue_loop(queue.records, instance_type, media_ids, 1, <<>>)

\* the duplicate removal skipped: the list is returned as built
process_queue_no_dedup(queue, instance_type, media_ids) ==
    {queue_list(queue, instance_type, media_ids)}

\* The lists process_queue can return: the set comprehension of line 90
\* keeps one copy of each association, in the iteration order of a Python
\* set, which is any order.
process_queue(queue, instance_type, media_ids) ==
    Orderings(Range(queue_list(queue, instance_type, media_ids)))

-----------------------------------------------------------------------------
(* The servers and the configuration *)

LibrarySize == 5    \* items in each server's library

ItemIds == 1..LibrarySize

\* config.instances_config: instance type -> the instances of that type
instances_config ==
    <<[type |-> "radarr", names |-> {"radarr_1"}],
      [type |-> "sonarr", names |-> {"sonarr_1"}]>>

ServerNames == {"radarr_1", "sonarr_1"}

\* script_config['instances']: the keys in file order (the settings of each
\* key are in the variable settings); "plex_1" is a key of no StARR type
InstanceLists ==
    {<<>>, <<"radarr_1">>, <<"sonarr_1", "radarr_1">>, <<"plex_1", "sonarr_1">>}

\* the settings a key of script_config['instances'] can carry
SettingsChoices == {None, [count |-> -1], [count |-> 0], [count |-> 1]}

\* app.get_instance_name: the name each server gives itself
get_instance_name(instance) ==
    IF instance = "radarr_1" THEN "Radarr" ELSE "Sonarr"

\* the server's tag table, read by app.get_tag_id_from_name
TagTable == [checked |-> 1, other |-> 2]

get_tag_id_from_name(tag_name) == TagTable[tag_name]

\* what a server hands back for one item, given the tags it holds for it
Item(instance_type, media_id, item_tags) ==
    [media_id |-> media_id,
     title |-> ToString(media_id),
     year |-> 2000 + media_id,
     monitored |-> (media_id % 4 # 2),
     status |-> IF media_id % 4 = 0 THEN "deleted"
                ELSE IF instance_type = "radarr" THEN "released" ELSE "continuing",
     tags |-> item_tags]

\* handle_starr_data: the library in the server's order
handle_starr_data(instance_type, tagdata) ==
    [i \in 1..LibrarySize |-> Item(instance_type, i, tagdata[i])]

\* the tag data a server can start with
InitialTags ==
    {[i \in ItemIds |-> IF i = 3 THEN {TagTable.other} ELSE {}],
     [i \in ItemIds |-> IF i = 1 THEN {TagTable.checked}
                        ELSE IF i = 3 THEN {TagTable.other} ELSE {}]}

\* the effect of the client's add_tags on a server's tag data
add_tags(tagdata, media_ids, tag_id) ==
    [i \in DOMAIN tagdata |->
        IF i \in Range(media_ids) THEN tagdata[i] \cup {tag_id} ELSE tagdata[i]]

\* what app.search_media can hand back: nothing, or the command it started
SearchResponses == {None, [id |-> 101]}

\* what app.add_tags can hand back: nothing, or a body with an id of its own
AddTagsResponses == {None, [id |-> 7]}

\* one record of a server's download queue
RawRecord(instance_type, downloadId, media_id, title, score) ==
    IF instance_type = "radarr"
    THEN [downloadId |-> downloadId, movieId |-> media_id,
          title |-> title, customFormatScore |-> score]
    ELSE [downloadId |-> downloadId, seriesId |-> media_id,
          episodeId |-> media_id + 100,
          title |-> title, customFormatScore |-> score]

\* what app.get_queue can hand back
QueueSnapshots(instance_type) ==
    LET a == RawRecord(instance_type, "d1", 1, "t1", 5)
        b == RawRecord(instance_type, "d2", 3, "t2", 7)
        c == RawRecord(instance_type, "d3", 2, "t3", 9)
    IN  {[records |-> <<>>], [records |-> <<a>>], [records |-> <<a, a>>],
         [records |-> <<a, b>>], [records |-> <<c>>]}

-----------------------------------------------------------------------------
(* process_instance *)

instance_settings == settings[cur.instance]
count == Get(instance_settings, "count", 2)
tag_name == Get(instance_settings, "tag_name", "checked")
tag_id == get_tag_id_from_name(tag_name)
media_ids == [i \in 1..Len(filtered_media_dict) |-> filtered_media_dict[i].media_id]

\* the tagged/untagged loop of lines 140-146
RECURSIVE count_tags(_, _, _, _, _)
count_tags(media, tid, i, tagged_count, untagged_count) ==
    IF i > Len(media)
    THEN [tagged_count |-> tagged_count, untagged_count |-> untagged_count]
    ELSE IF tid \in media[i].tags
         THEN count_tags(media, tid, i + 1, tagged_count + 1, untagged_count)
         ELSE count_tags(media, tid, i + 1, tagged_count, untagged_count + 1)

\* untagged_count taken from the items that pass the filter only
new_output_dict_eligible_only(server_name, media, tid) ==
    [server_name |-> server_name,
     tagged_count |-> count_tags(media, tid, 1, 0, 0).tagged_count,
     untagged_count |-> Len(filter_media(media, tid, Len(media))),
     total_count |-> Len(media),
     data |-> <<>>]

\* lines 139-155: the counts and the output dictionary
new_output_dict(server_name, media, tid) ==
    LET c == IF media # None THEN count_tags(media, tid, 1, 0, 0)
             ELSE [tagged_count |-> 0, untagged_count |-> 0]
    IN  [server_name |-> server_name,
         tagged_count |-> c.tagged_count,
         untagged_count |-> c.untagged_count,
         total_count |-> IF media # None THEN Len(media) ELSE 0,
         data |-> <<>>]

\* the last selected item left out of the report
dry_run_data_drops_last(filtered) ==
    [i \in 1..(Len(filtered) - 1) |->
        [media_id |-> filtered[i].media_id, title |-> filtered[i].title,
         year |-> filtered[i].year,
         torrent |-> None, torrent_custom_format_score |-> None]]

\* lines 183-190: the entries of a dry run
dry_run_data(filtered) ==
    [i \in 1..Len(filtered) |->
        [media_id |-> filtered[i].media_id, title |-> filtered[i].title,
         year |-> filtered[i].year,
         torrent |-> None, torrent_custom_format_score |-> None]]

\* torrents[k] = v on a dict kept as the sequence of its (key, value) pairs
DictPut(d, k, v) ==
    IF \E i \in DOMAIN d : d[i].key = k
    THEN [i \in DOMAIN d |-> IF d[i].key = k THEN [key |-> k, value |-> v] ELSE d[i]]
    ELSE Append(d, [key |-> k, value |-> v])

\* lines 170-173: the torrents of one item
RECURSIVE torrents_of(_, _, _, _)
torrents_of(item, qd, j, torrents) ==
    IF j > Len(qd) THEN torrents
    ELSE IF item.media_id = qd[j].media_id
         THEN torrents_of(item, qd, j + 1,
                          DictPut(torrents, qd[j].torrent, qd[j].torrent_custom_format_score))
         ELSE torrents_of(item, qd, j + 1, torrents)

\* lines 169-181: the entries of a run that reached the queue; queue_item is
\* the loop variable of the inner for, left at the last element of queue_dict
RECURSIVE reconcile(_, _, _, _)
reconcile(filtered, qd, i, data) ==
    IF i > Len(filtered) THEN data
    ELSE LET torrents == torrents_of(filtered[i], qd, 1, <<>>) IN
         IF torrents # <<>>
         THEN reconcile(filtered, qd, i + 1,
                  Append(data,
                      [media_id |-> filtered[i].media_id,
                       title |-> filtered[i].title,
                       year |-> filtered[i].year,
                       torrents |-> torrents,
                       torrent_custom_format_score |->
                           qd[Len(qd)].torrent_custom_format_score]))
         ELSE reconcile(filtered, qd, i + 1, data)

\* one client call, as it is remembered in calls
Call(op, ids, arg) == [op |-> op, instance |-> cur.instance, ids |-> ids, arg |-> arg]

\* final_output_dict[instance] = output (line 308)
StoreOutput(output) ==
    [final_output_dict EXCEPT ![Len(final_output_dict)].output = output]

-----------------------------------------------------------------------------
(* print_output and notification *)

Line(kind, text) == [kind |-> kind, text |-> text]

torrent_lines(torrents, kind) ==
    [j \in 1..Len(torrents) |-> Line(kind, <<torrents[j].key, torrents[j].value>>)]

\* lines 215-222: the items of one instance; item['torrents'] raises
\* KeyError on an entry that has no such key
RECURSIVE print_items(_, _, _)
print_items(instance_data, i, out) ==
    IF out.error # "none" \/ i > Len(instance_data) THEN out
    ELSE LET item == instance_data[i]
             titled == Append(out.lines, Line("item", <<item.title, item.year>>))
         IN  IF "torrents" \notin DOMAIN item
             THEN [lines |-> titled, error |-> "KeyError"]
             ELSE print_items(instance_data, i + 1,
                      [lines |-> titled \o torrent_lines(item.torrents, "torrent")
                                        \o <<Line("blank", <<>>)>>,
                       error |-> "none"])

\* lines 205-225: the instances of the output dictionary, in insertion order
RECURSIVE print_output(_, _, _)
print_output(output, k, out) ==
    IF out.error # "none" \/ k > Len(output) THEN out
    ELSE LET run_data == output[k].output
             instance_data == Get(run_data, "data", None)
         IN  IF instance_data # None
             THEN print_output(output, k + 1,
                      print_items(instance_data, 1,
                          [lines |-> Append(out.lines,
                                        Line("header", <<run_data.server_name>>)),
                           error |-> "none"]))
             ELSE print_output(output, k + 1,
                      [lines |-> Append(out.lines,
                                    Line("none_found", <<output[k].instance>>)),
                       error |-> "none"])

\* lines 246-258: the blocks of one instance
RECURSIVE server_list(_, _, _)
server_list(instance_data, i, out) ==
    IF out.error # "none" \/ i > Len(instance_data) THEN out
    ELSE LET item == instance_data[i] IN
         IF "torrents" \notin DOMAIN item
         THEN [blocks |-> out.blocks, error |-> "KeyError"]
         ELSE LET torrent_list ==
                      <<Line("item", <<item.title, item.year>>)>> \o
                      (IF item.torrents # <<>>
                       THEN torrent_lines(item.torrents, "cf_score")
                       ELSE <<Line("no_upgrades", <<>>)>>)
              IN  server_list(instance_data, i + 1,
                      [blocks |-> Append(out.blocks, torrent_list), error |-> "none"])

\* lines 239-265: the fields of the message, one per instance with blocks
RECURSIVE notification_fields(_, _, _)
notification_fields(output, k, out) ==
    IF out.error # "none" \/ k > Len(output) THEN out
    ELSE LET run_data == output[k].output IN
         IF "server_name" \notin DOMAIN run_data
         THEN [fields |-> out.fields, error |-> "KeyError"]
         ELSE LET sl == server_list(Get(run_data, "data", None), 1,
                                    [blocks |-> <<>>, error |-> "none"])
              IN  IF sl.error # "none"
                  THEN [fields |-> out.fields, error |-> sl.error]
                  ELSE notification_fields(output, k + 1,
                           [fields |-> IF sl.blocks # <<>>
                                       THEN Append(out.fields,
                                                [name |-> run_data.server_name,
                                                 value |-> sl.blocks])
                                       ELSE out.fields,
                            error |-> "none"])

-----------------------------------------------------------------------------
(* main *)

\* the pairs (instance_type, instance) the nested loops of lines 297-299
\* reach, in the order they reach them
RECURSIVE WorkList(_, _)
WorkList(k, names) ==
    IF k > Len(instances_config) THEN <<>>
    ELSE LET here == SelectSeq(names, LAMBDA n : n \in instances_config[k].names)
         IN  [i \in 1..Len(here) |->
                 [instance_type |-> instances_config[k].type, instance |-> here[i]]]
             \o WorkList(k + 1, names)

NoInstance == [instance_type |-> "", instance |-> ""]

IdleLocals ==
    /\ cur = NoInstance
    /\ media_dict = <<>>
    /\ filtered_media_dict = <<>>
    /\ response = None
    /\ searched = None
    /\ ready = FALSE
    /\ queue_dict = <<>>
    /\ output_dict = None

IdleFilter ==
    /\ media_in = <<>>
    /\ tag_in = 0
    /\ count_in = 0
    /\ filter_out = <<>>
    /\ filter_called = FALSE

IdleQueue ==
    /\ queue_in = [records |-> <<>>]
    /\ type_in = "radarr"
    /\ ids_in = <<>>
    /\ queue_out = <<>>
    /\ queue_called = FALSE
    /\ dup_in = [records |-> <<>>]
    /\ dup_out = <<>>
    /\ dup_called = FALSE

IdleMain ==
    /\ todo = <<>>
    /\ final_output_dict = <<>>
    /\ error = "none"
    /\ printed = <<>>
    /\ fields = <<>>
    /\ notified = FALSE
    /\ calls = <<>>

\* the script is started against servers in some state of their tag data
Init ==
    /\ IdleFilter
    /\ IdleQueue
    /\ dry_run \in BOOLEAN
    /\ instances \in InstanceLists
    /\ settings \in [ServerNames -> SettingsChoices]
    /\ tags \in [ServerNames -> InitialTags]
    /\ pc = "main"
    /\ run = 1
    /\ IdleMain
    /\ IdleLocals
    /\ batches = <<>>

\* the test of line 289 lost: main goes on with no instance to loop over
MainStart_unchecked ==
    /\ pc = "main"
    /\ error' = error
    /\ pc' = "loop"
    /\ todo' = WorkList(1, instances)
    /\ final_output_dict' = <<>>
    /\ UNCHANGED <<filterVars, queueVars, cfgVars, tags, run, printed, fields,
                   notified, localVars, histVars>>

\* lines 275-294
MainStart ==
    /\ pc = "main"
    /\ IF instances = <<>>
       THEN /\ error' = "No instances found in config file."
            /\ pc' = "exited"
            /\ todo' = <<>>
       ELSE /\ error' = error
            /\ pc' = "loop"
            /\ todo' = WorkList(1, instances)
    /\ final_output_dict' = <<>>
    /\ UNCHANGED <<filterVars, queueVars, cfgVars, tags, run, printed, fields,
                   notified, localVars, histVars>>

\* lines 297-304: the next configured instance and its client
NextInstance ==
    /\ pc = "loop"
    /\ todo # <<>>
    /\ cur' = Head(todo)
    /\ todo' = Tail(todo)
    /\ final_output_dict' =
           Append(final_output_dict, [instance |-> Head(todo).instance, output |-> None])
    /\ calls' = Append(calls, [op |-> "StARR", instance |-> Head(todo).instance,
                               ids |-> <<>>, arg |-> 0])
    /\ pc' = "process_instance"
    /\ UNCHANGED <<filterVars, queueVars, cfgVars, tags, run, error, printed, fields,
                   notified, media_dict, filtered_media_dict, response, searched,
                   ready, queue_dict, output_dict, batches>>

\* lines 108-155: the library is fetched, filtered and counted
Gather ==
    /\ pc = "process_instance"
    /\ LET media == handle_starr_data(cur.instance_type, tags[cur.instance])
           filtered == filter_media(media, tag_id, count)
       IN  /\ media_dict' = media
           /\ filtered_media_dict' = filtered
           /\ output_dict' = new_output_dict(get_instance_name(cur.instance), media, tag_id)
           /\ batches' = Append(batches,
                  [run |-> run, instance |-> cur.instance,
                   ids |-> [i \in 1..Len(filtered) |-> filtered[i].media_id],
                   handle |-> FALSE, killed |-> FALSE])
    /\ calls' = calls \o <<Call("get_instance_name", <<>>, 0),
                           Call("get_media", <<>>, 0),
                           Call("get_tag_id_from_name", <<>>, 0)>>
    /\ pc' = IF dry_run THEN "dry_run" ELSE "search_media"
    /\ UNCHANGED <<filterVars, queueVars, cfgVars, tags, run, todo, final_output_dict,
                   error, printed, fields, notified, cur, response, searched, ready,
                   queue_dict>>

\* line 129 when the client raises: nothing in main catches it
GatherFails ==
    /\ pc = "process_instance"
    /\ calls' = calls \o <<Call("get_instance_name", <<>>, 0),
                           Call("get_media", <<>>, 0)>>
    /\ error' = "RemoteCallFailure"
    /\ pc' = "crashed"
    /\ UNCHANGED <<filterVars, queueVars, cfgVars, tags, run, todo, final_output_dict,
                   printed, fields, notified, localVars, batches>>

\* lines 182-191 and 308: the dry run
DryRun ==
    /\ pc = "dry_run"
    /\ LET output == [output_dict EXCEPT !.data = dry_run_data(filtered_media_dict)]
       IN  /\ output_dict' = output
           /\ final_output_dict' = StoreOutput(output)
    /\ pc' = "loop"
    /\ UNCHANGED <<filterVars, queueVars, cfgVars, tags, run, todo, error, printed,
                   fields, notified, cur, media_dict, filtered_media_dict, response,
                   searched, ready, queue_dict, histVars>>

\* the tag applied together with the search instead of after it
SearchMedia_tags_first ==
    /\ pc = "search_media"
    /\ \E r \in SearchResponses :
          /\ response' = r
          /\ searched' = r
          /\ batches' = [batches EXCEPT ![Len(batches)].handle = (r # None)]
          /\ pc' = IF r # None THEN "add_tags" ELSE "get_command_status"
    /\ tags' = [tags EXCEPT ![cur.instance] = add_tags(@, media_ids, tag_id)]
    /\ calls' = Append(calls, Call("search_media", media_ids, 0))
    /\ UNCHANGED <<filterVars, queueVars, cfgVars, run, todo, final_output_dict, error,
                   printed, fields, notified, cur,
                   media_dict, filtered_media_dict, ready, queue_dict, output_dict>>

\* the test of line 161 lost: the batch is tagged whatever the search returned
SearchMedia_always_tags ==
    /\ pc = "search_media"
    /\ \E r \in SearchResponses :
          /\ response' = r
          /\ searched' = r
          /\ batches' = [batches EXCEPT ![Len(batches)].handle = (r # None)]
          /\ pc' = "add_tags"
    /\ calls' = Append(calls, Call("search_media", media_ids, 0))
    /\ UNCHANGED <<filterVars, queueVars, cfgVars, tags, run, todo, final_output_dict, error,
                   printed, fields, notified, cur,
                   media_dict, filtered_media_dict, ready, queue_dict, output_dict>>

\* lines 158-161: the search is triggered for the selected ids
SearchMedia ==
    /\ pc = "search_media"
    /\ \E r \in SearchResponses :
          /\ response' = r
          /\ searched' = r
          /\ batches' = [batches EXCEPT ![Len(batches)].handle = (r # None)]
          /\ pc' = IF r # None THEN "add_tags" ELSE "get_command_status"
    /\ calls' = Append(calls, Call("search_media", media_ids, 0))
    /\ UNCHANGED <<filterVars, queueVars, cfgVars, tags, run, todo, final_output_dict, error,
                   printed, fields, notified, cur,
                   media_dict, filtered_media_dict, ready, queue_dict, output_dict>>

\* line 162: the selected ids are tagged; response now holds what add_tags
\* handed back
AddTags ==
    /\ pc = "add_tags"
    /\ tags' = [tags EXCEPT ![cur.instance] = add_tags(@, media_ids, tag_id)]
    /\ calls' = Append(calls, Call("add_tags", media_ids, tag_id))
    /\ \E r \in AddTagsResponses : response' = r
    /\ pc' = "get_command_status"
    /\ UNCHANGED <<filterVars, queueVars, cfgVars, run, todo, final_output_dict, error,
                   printed, fields, notified, cur, media_dict, filtered_media_dict,
                   searched, ready, queue_dict, output_dict, batches>>

\* the test of line 165 lost: the queue is fetched whatever the poll said
GetCommandStatus_ignores_ready ==
    /\ pc = "get_command_status"
    /\ IF "id" \notin DOMAIN response
       THEN /\ error' = "TypeError"
            /\ pc' = "crashed"
            /\ UNCHANGED <<calls, ready>>
       ELSE /\ calls' = Append(calls, Call("get_command_status", <<>>, response.id))
            /\ \E b \in BOOLEAN :
                  /\ ready' = b
                  /\ pc' = "get_queue"
            /\ error' = error
    /\ UNCHANGED <<filterVars, queueVars, cfgVars, tags, run, todo, printed, fields,
                   notified, cur, media_dict, filtered_media_dict, response, searched,
                   queue_dict, output_dict, batches, final_output_dict>>

\* lines 163-165 (and 191, 308 when the command is not ready): response['id']
\* raises TypeError on None; otherwise the command of that id is polled
GetCommandStatus ==
    /\ pc = "get_command_status"
    /\ IF "id" \notin DOMAIN response
       THEN /\ error' = "TypeError"
            /\ pc' = "crashed"
            /\ UNCHANGED <<calls, ready, final_output_dict>>
       ELSE /\ calls' = Append(calls, Call("get_command_status", <<>>, response.id))
            /\ \E b \in BOOLEAN :
                  /\ ready' = b
                  /\ pc' = IF b THEN "get_queue" ELSE "loop"
                  /\ final_output_dict' =
                         IF b THEN final_output_dict ELSE StoreOutput(output_dict)
            /\ error' = error
    /\ UNCHANGED <<filterVars, queueVars, cfgVars, tags, run, todo, printed, fields,
                   notified, cur, media_dict, filtered_media_dict, response, searched,
                   queue_dict, output_dict, batches>>

\* lines 166-181, 191 and 308: the queue is fetched and matched to the
\* selected items
GetQueue ==
    /\ pc = "get_queue"
    /\ \E queue \in QueueSnapshots(cur.instance_type) :
       \E qd \in process_queue(queue, cur.instance_type, media_ids) :
          LET output == [output_dict EXCEPT
                            !.data = reconcile(filtered_media_dict, qd, 1, <<>>)]
          IN  /\ queue_dict' = qd
              /\ output_dict' = output
              /\ final_output_dict' = StoreOutput(output)
    /\ calls' = Append(calls, Call("get_queue", <<>>, 0))
    /\ pc' = "loop"
    /\ UNCHANGED <<filterVars, queueVars, cfgVars, tags, run, todo, error, printed,
                   fields, notified, cur, media_dict, filtered_media_dict, response,
                   searched, ready, batches>>

\* lines 310-314: the loops are over
LoopEnd ==
    /\ pc = "loop"
    /\ todo = <<>>
    /\ pc' = IF final_output_dict # <<>> THEN "print_output" ELSE "done"
    /\ UNCHANGED <<filterVars, queueVars, cfgVars, tags, run, todo, final_output_dict,
                   error, printed, fields, notified, localVars, histVars>>

\* line 315
PrintOutput ==
    /\ pc = "print_output"
    /\ LET out == print_output(final_output_dict, 1, [lines |-> <<>>, error |-> "none"])
       IN  /\ printed' = out.lines
           /\ error' = out.error
           /\ pc' = IF out.error = "none" THEN "notification" ELSE "crashed"
    /\ UNCHANGED <<filterVars, queueVars, cfgVars, tags, run, todo, final_output_dict,
                   fields, notified, localVars, histVars>>

\* line 316
Notification ==
    /\ pc = "notification"
    /\ LET out == notification_fields(final_output_dict, 1,
                                      [fields |-> <<>>, error |-> "none"])
       IN  /\ fields' = out.fields
           /\ error' = out.error
           /\ notified' = (out.error = "none")
           /\ pc' = IF out.error = "none" THEN "done" ELSE "crashed"
    /\ UNCHANGED <<filterVars, queueVars, cfgVars, tags, run, todo, final_output_dict,
                   printed, localVars, histVars>>

\* lines 318-319: the script is started again; the servers keep their tags
Restart ==
    /\ pc \in {"done", "crashed", "exited"}
    /\ run < MaxRuns
    /\ run' = run + 1
    /\ pc' = "main"
    /\ todo' = <<>>
    /\ final_output_dict' = <<>>
    /\ error' = "none"
    /\ printed' = <<>>
    /\ fields' = <<>>
    /\ notified' = FALSE
    /\ calls' = <<>>
    /\ cur' = NoInstance
    /\ media_dict' = <<>>
    /\ filtered_media_dict' = <<>>
    /\ response' = None
    /\ searched' = None
    /\ ready' = FALSE
    /\ queue_dict' = <<>>
    /\ output_dict' = None
    /\ UNCHANGED <<filterVars, queueVars, cfgVars, tags, batches>>

Next ==
    \/ MainStart
    \/ NextInstance
    \/ Gather
    \/ GatherFails
    \/ DryRun
    \/ SearchMedia
    \/ AddTags
    \/ GetCommandStatus
    \/ GetQueue
    \/ LoopEnd
    \/ PrintOutput
    \/ Notification
    \/ Restart

Spec == Init /\ [][Next]_vars

\* the process is stopped after line 160 has returned a handle and before
\* line 162 is reached
Killed ==
    /\ pc = "add_tags"
    /\ batches' = [batches EXCEPT ![Len(batches)].killed = TRUE]
    /\ error' = "killed"
    /\ pc' = "crashed"
    /\ UNCHANGED <<filterVars, queueVars, cfgVars, tags, run, todo, final_output_dict,
                   printed, fields, notified, localVars, calls>>

NextCrash ==
    \/ MainStart
    \/ NextInstance
    \/ Gather
    \/ GatherFails
    \/ DryRun
    \/ SearchMedia
    \/ Killed
    \/ AddTags
    \/ GetCommandStatus
    \/ GetQueue
    \/ LoopEnd
    \/ PrintOutput
    \/ Notification
    \/ Restart

\* the script run again and again, any run of which can be stopped between
\* its search and its tag call
SpecCrash == Init /\ [][NextCrash]_vars

-----------------------------------------------------------------------------
(* filter_media on its own: any short list of items, tag id and count *)

FilterTagIds == {TagTable.checked, TagTable.other}

ItemShapes ==
    [monitored : BOOLEAN,
     status : {"released", "deleted"},
     tags : {{}, {TagTable.checked}, {TagTable.checked, TagTable.other}}]

\* the lists a server can hand back: ids are unique
ItemLists ==
    UNION {{[i \in 1..n |->
                [media_id |-> i, title |-> ToString(i), year |-> 2000 + i,
                 monitored |-> f[i].monitored, status |-> f[i].status,
                 tags |-> f[i].tags]] : f \in [1..n -> ItemShapes]} : n \in 0..MaxLen}

IdleProgram ==
    /\ dry_run = FALSE
    /\ instances = <<>>
    /\ settings = [n \in ServerNames |-> None]
    /\ tags = [n \in ServerNames |-> [i \in ItemIds |-> {}]]
    /\ pc = "idle"
    /\ run = 1
    /\ IdleMain
    /\ IdleLocals
    /\ batches = <<>>

InitFilter ==
    /\ media_in \in ItemLists
    /\ tag_in \in FilterTagIds
    /\ count_in \in -1..(MaxLen + 1)
    /\ filter_out = <<>>
    /\ filter_called = FALSE
    /\ IdleQueue
    /\ IdleProgram

\* lines 32-57
FilterMedia ==
    /\ ~filter_called
    /\ filter_out' = filter_media(media_in, tag_in, count_in)
    /\ filter_called' = TRUE
    /\ UNCHANGED <<media_in, tag_in, count_in, queueVars, cfgVars, tags, mainVars,
                   localVars, histVars>>

NextFilter == FilterMedia

SpecFilter == InitFilter /\ [][NextFilter]_vars

-----------------------------------------------------------------------------
(* process_queue on its own: any short queue of either type, any targets *)

RawRecords(instance_type) ==
    {RawRecord(instance_type, d, m, t, s) :
        d \in {"d1", "d2"}, m \in 1..2, t \in {"t1", "t2"}, s \in {5, 7}}

Queues(instance_type) ==
    UNION {{[records |-> r] : r \in [1..n -> RawRecords(instance_type)]} : n \in 0..MaxQLen}

InitQueue ==
    /\ type_in \in {"radarr", "sonarr"}
    /\ queue_in \in Queues(type_in)
    /\ ids_in \in {<<>>, <<1>>, <<2>>, <<2, 1>>}
    /\ queue_out = <<>>
    /\ queue_called = FALSE
    /\ dup_in = [records |-> <<>>]
    /\ dup_out = <<>>
    /\ dup_called = FALSE
    /\ IdleFilter
    /\ IdleProgram

\* lines 60-91
ProcessQueue ==
    /\ ~queue_called
    /\ queue_out' \in process_queue(queue_in, type_in, ids_in)
    /\ queue_called' = TRUE
    /\ UNCHANGED <<queue_in, type_in, ids_in, dup_in, dup_out, dup_called, filterVars,
                   cfgVars, tags, mainVars, localVars, histVars>>

\* lines 60-91 again, the server now reporting one of the records twice
ProcessQueueDuplicated ==
    /\ queue_called
    /\ ~dup_called
    /\ \E i \in DOMAIN queue_in.records :
          LET q == [records |-> Append(queue_in.records, queue_in.records[i])]
          IN  /\ dup_in' = q
              /\ dup_out' \in process_queue(q, type_in, ids_in)
    /\ dup_called' = TRUE
    /\ UNCHANGED <<queue_in, type_in, ids_in, queue_out, queue_called, filterVars,
                   cfgVars, tags, mainVars, localVars, histVars>>

NextQueue ==
    \/ ProcessQueue
    \/ ProcessQueueDuplicated

SpecQueue == InitQueue /\ [][NextQueue]_vars

-----------------------------------------------------------------------------
(* Properties *)

CheckedTag == get_tag_id_from_name("checked")

\* process_instance is between its first client call and its return
InInstance ==
    pc \in {"process_instance", "dry_run", "search_media", "add_tags",
            "get_command_status", "get_queue"}

\* the run of process_instance that made batches[k] is over
Ended(k) == k < Len(batches) \/ ~InInstance

\* the calls of this run made for one instance
CallsOf(instance, ops) ==
    {i \in DOMAIN calls : calls[i].instance = instance /\ calls[i].op \in ops}

MutatingOps == {"search_media", "add_tags", "get_command_status", "get_queue"}

\* the batch selected for an instance in the current run
BatchOf(instance) ==
    {k \in DOMAIN batches : batches[k].run = run /\ batches[k].instance = instance}

\* C1: over non-dry runs whose search triggers all returned a handle, every
\* item of a batch carries the configured tag once its run is over, and the
\* batches selected for one instance in different runs are pairwise disjoint.
C1_TaggedNeverReselected ==
    ~dry_run =>
        \A k \in DOMAIN batches :
            ( /\ Ended(k)
              /\ \A j \in 1..k :
                    (batches[j].instance = batches[k].instance /\ Ended(j))
                        => batches[j].handle )
            => /\ \A m \in Range(batches[k].ids) :
                     CheckedTag \in tags[batches[k].instance][m]
               /\ \A j \in 1..(k - 1) :
                     batches[j].instance = batches[k].instance
                         => Range(batches[j].ids) \cap Range(batches[k].ids) = {}

\* C1 witness: one instance has been through two non-dry runs, each with a
\* handle and a nonempty batch.
C1_Witness ==
    /\ ~dry_run
    /\ ~InInstance
    /\ \E j, k \in DOMAIN batches :
          /\ j < k
          /\ batches[j].instance = batches[k].instance
          /\ batches[j].handle /\ batches[k].handle
          /\ batches[j].ids # <<>> /\ batches[k].ids # <<>>

\* in a dry run: no search, tag, command-status or queue call so far, and
\* every stored result lists the selected items one for one, in order
C2_DryRunResult ==
    dry_run =>
        /\ \A i \in DOMAIN calls : calls[i].op \notin MutatingOps
        /\ \A k \in DOMAIN final_output_dict :
              final_output_dict[k].output # None =>
                  \E b \in BatchOf(final_output_dict[k].instance) :
                      LET data == final_output_dict[k].output.data IN
                      /\ Len(data) = Len(batches[b].ids)
                      /\ \A i \in DOMAIN data :
                            /\ data[i].media_id = batches[b].ids[i]
                            /\ data[i].torrent = None
                            /\ data[i].torrent_custom_format_score = None

\* C2: in a dry run no search, tag, command-status or queue call is made and
\* the tag data of the servers never changes; every stored result lists the
\* selected items one for one, in selection order, with null torrent fields.
C2_DryRunNoCalls ==
    /\ [](C2_DryRunResult)
    /\ [][dry_run => tags' = tags]_vars

\* C2 witness: a dry run has stored a result with two selected items.
C2_Witness ==
    /\ dry_run
    /\ \E k \in DOMAIN final_output_dict :
          /\ final_output_dict[k].output # None
          /\ Len(final_output_dict[k].output.data) >= 2

\* the search of the current instance came back without a handle and
\* process_instance is over
NoHandleRunOver ==
    /\ ~dry_run
    /\ ~InInstance
    /\ cur # NoInstance
    /\ CallsOf(cur.instance, {"search_media"}) # {}
    /\ searched = None

\* C3: in a non-dry run whose search trigger returns no handle,
\* process_instance makes no tag, command-status or queue call and returns
\* normally with an empty data list.
C3_NoHandleReturnsEmpty ==
    NoHandleRunOver =>
        /\ CallsOf(cur.instance, {"add_tags", "get_command_status", "get_queue"}) = {}
        /\ error = "none"
        /\ final_output_dict[Len(final_output_dict)].output # None
        /\ final_output_dict[Len(final_output_dict)].output.data = <<>>

\* C4: when a client call raises during one instance, main still processes
\* every remaining instance and print_output and notification still run;
\* the failed instance contributes no result.
C4_FailureIsLocal ==
    (error = "RemoteCallFailure" /\ pc \in {"done", "crashed"}) =>
        /\ todo = <<>>
        /\ pc = "done"
        /\ notified

\* C5: every item filter_media returns is free of the excluded tag, is
\* monitored, and has one of the five accepted statuses.
C5_SelectedAreEligible ==
    filter_called =>
        \A i \in DOMAIN filter_out :
            /\ tag_in \notin filter_out[i].tags
            /\ filter_out[i].monitored = TRUE
            /\ filter_out[i].status \in
                   {"continuing", "airing", "ended", "canceled", "released"}

\* C5 witness: filter_media returned an item from a list that also held a
\* tagged, an unmonitored and a wrong-status item.
C5_Witness ==
    /\ filter_called
    /\ filter_out # <<>>
    /\ \E i \in DOMAIN media_in : tag_in \in media_in[i].tags
    /\ \E i \in DOMAIN media_in : ~media_in[i].monitored
    /\ \E i \in DOMAIN media_in : media_in[i].status = "deleted"

EligibleItem(item) ==
    /\ tag_in \notin item.tags
    /\ item.monitored
    /\ item.status \in {"continuing", "airing", "ended", "canceled", "released"}

EligibleIn == SelectSeq(media_in, EligibleItem)

Min(a, b) == IF a < b THEN a ELSE b

\* C6: for a limit >= 0, filter_media returns the first min(limit, k) of the
\* k eligible items, in input order, none of them twice.
C6_FirstEligibleUpToLimit ==
    (filter_called /\ count_in >= 0) =>
        /\ filter_out = SubSeq(EligibleIn, 1, Min(count_in, Len(EligibleIn)))
        /\ \A i, j \in DOMAIN filter_out :
              filter_out[i].media_id = filter_out[j].media_id => i = j

\* C6 witness: more items were eligible than the limit allowed, and an
\* ineligible item stood before a returned one.
C6_Witness ==
    /\ filter_called
    /\ count_in >= 1
    /\ Len(EligibleIn) > count_in
    /\ Len(filter_out) = count_in
    /\ ~EligibleItem(media_in[1])

\* C7: for a limit <= 0, filter_media returns the empty sequence.
C7_NonPositiveLimitEmpty ==
    (filter_called /\ count_in <= 0) => filter_out = <<>>

AssociationOf(rec) ==
    [download_id |-> rec.downloadId,
     media_id |-> IF type_in = "radarr" THEN rec.movieId ELSE rec.seriesId,
     torrent |-> rec.title,
     torrent_custom_format_score |-> rec.customFormatScore]

\* C8: process_queue returns no association for an item outside the target
\* ids, and every queue record of a target item is among the associations.
C8_OnlyAndAllTargets ==
    queue_called =>
        /\ \A i \in DOMAIN queue_out : queue_out[i].media_id \in Range(ids_in)
        /\ \A i \in DOMAIN queue_in.records :
              AssociationOf(queue_in.records[i]).media_id \in Range(ids_in)
                  => AssociationOf(queue_in.records[i]) \in Range(queue_out)

\* C8 witness: the queue held a record of a target item and a record of
\* another item.
C8_Witness ==
    /\ queue_called
    /\ \E i \in DOMAIN queue_in.records :
          AssociationOf(queue_in.records[i]).media_id \in Range(ids_in)
    /\ \E i \in DOMAIN queue_in.records :
          AssociationOf(queue_in.records[i]).media_id \notin Range(ids_in)

\* C9: a queue with one of its records appended again gives the same set of
\* associations, and no association occurs twice in a result.
C9_DuplicationIdempotent ==
    /\ queue_called =>
          \A i, j \in DOMAIN queue_out : queue_out[i] = queue_out[j] => i = j
    /\ dup_called =>
          /\ Range(dup_out) = Range(queue_out)
          /\ Len(dup_out) = Len(queue_out)
          /\ \A i, j \in DOMAIN dup_out : dup_out[i] = dup_out[j] => i = j

\* C9 witness: a record of a target item was reported a second time.
C9_Witness ==
    /\ dup_called
    /\ dup_out # <<>>
    /\ AssociationOf(dup_in.records[Len(dup_in.records)]) \in Range(dup_out)

\* the items of the fetched library that carry the resolved tag
TaggedIn(media) == {i \in DOMAIN media : CheckedTag \in media[i].tags}

\* C10: in every result of process_instance tagged_count + untagged_count =
\* total_count; total_count is the number of items fetched and tagged_count
\* the number of them that carry the resolved tag, in dry and non-dry runs
\* and whatever the selection limit.
C10_CountsAddUp ==
    /\ \A k \in DOMAIN final_output_dict :
          LET o == final_output_dict[k].output IN
          o # None => o.tagged_count + o.untagged_count = o.total_count
    /\ output_dict # None =>
          /\ output_dict.total_count = Len(media_dict)
          /\ output_dict.tagged_count = Cardinality(TaggedIn(media_dict))
          /\ output_dict.tagged_count + output_dict.untagged_count
                 = output_dict.total_count

\* C10 witness: a stored result counts tagged and untagged items, more of
\* the latter than the limit let through.
C10_Witness ==
    /\ pc = "loop"
    /\ output_dict # None
    /\ final_output_dict[Len(final_output_dict)].output = output_dict
    /\ output_dict.tagged_count > 0
    /\ output_dict.untagged_count > Len(filtered_media_dict)
    /\ filtered_media_dict # <<>>

\* C11: with no instance configured main logs the configuration error and
\* exits: no client is constructed, no instance is processed, and neither
\* print_output nor notification is called.
C11_NoInstancesExits ==
    instances = <<>> =>
        /\ pc \in {"main", "exited"}
        /\ pc = "exited" => error = "No instances found in config file."
        /\ calls = <<>>
        /\ batches = <<>>
        /\ final_output_dict = <<>>
        /\ printed = <<>> /\ fields = <<>> /\ ~notified

\* C11 witness: main has exited on an empty instance list.
C11_Witness ==
    /\ instances = <<>>
    /\ pc = "exited"
    /\ error = "No instances found in config file."

\* the entries of final_output_dict whose data list is not empty
WithData ==
    {k \in DOMAIN final_output_dict :
        Get(final_output_dict[k].output, "data", <<>>) # <<>>}

\* main is over, every instance returned a result, one of them with data
ReportDue ==
    /\ pc \in {"done", "crashed"}
    /\ todo = <<>>
    /\ error \notin {"RemoteCallFailure", "TypeError"}
    /\ WithData # {}

\* the block notification builds for one item: its title and year, then its
\* torrent/score lines or the "no upgrades found" line
BlockOf(item) ==
    <<Line("item", <<item.title, item.year>>)>> \o
    (IF Get(item, "torrents", <<>>) # <<>>
     THEN torrent_lines(item.torrents, "cf_score")
     ELSE <<Line("no_upgrades", <<>>)>>)

\* C12: when some instance has data (a dry run with a selected item
\* included), print_output and notification complete without error, every
\* item of such an instance is rendered with its title and year, and the
\* notification has exactly one field for each instance with data.
C12_ReportRendersEveryItem ==
    ReportDue =>
        /\ error = "none"
        /\ pc = "done"
        /\ notified
        /\ Len(fields) = Cardinality(WithData)
        /\ \A k \in WithData :
              LET o == final_output_dict[k].output IN
              /\ \E f \in DOMAIN fields :
                    /\ fields[f].name = o.server_name
                    /\ fields[f].value = [i \in 1..Len(o.data) |-> BlockOf(o.data[i])]
              /\ \A i \in DOMAIN o.data :
                    \E l \in DOMAIN printed :
                        printed[l] = Line("item", <<o.data[i].title, o.data[i].year>>)

\* the report of the runs that are not dry runs
NonDryReportRenders == ~dry_run => C12_ReportRendersEveryItem

\* the positions in calls of the calls of one kind made for one instance
CallsAt(instance, op) == CallsOf(instance, {op})

\* C13: in a non-dry run add_tags is called at most once per instance, only
\* after a search_media call that returned a handle, and with exactly the
\* id list of the selected batch, which is the list search_media was given.
C13_TagAfterHandleOnBatch ==
    \A i \in DOMAIN calls :
        calls[i].op = "add_tags" =>
            /\ ~dry_run
            /\ Cardinality(CallsAt(calls[i].instance, "add_tags")) = 1
            /\ \E j \in 1..(i - 1) :
                  /\ calls[j].op = "search_media"
                  /\ calls[j].instance = calls[i].instance
                  /\ calls[j].ids = calls[i].ids
            /\ \E b \in BatchOf(calls[i].instance) :
                  /\ batches[b].handle
                  /\ batches[b].ids = calls[i].ids
            /\ calls[i].arg = CheckedTag

\* C13 witness: a nonempty batch has been tagged.
C13_Witness ==
    \E i \in DOMAIN calls :
        /\ calls[i].op = "add_tags"
        /\ Len(calls[i].ids) >= 2

\* process_instance has just returned from a non-dry run that fetched the
\* queue: output_dict, filtered_media_dict and queue_dict are those of that run
Reconciled ==
    /\ ~dry_run
    /\ pc = "loop"
    /\ cur # NoInstance
    /\ calls # <<>>
    /\ calls[Len(calls)].op = "get_queue"

\* the positions in queue_dict of the associations of one item
MatchesOf(m) == {j \in DOMAIN queue_dict : queue_dict[j].media_id = m}

\* C14: after reconciliation the data list holds every selected item once,
\* in selection order, an item without a matching association included
\* with an empty torrents mapping.
C14_EverySelectedItemListed ==
    Reconciled =>
        /\ Len(output_dict.data) = Len(filtered_media_dict)
        /\ \A i \in DOMAIN output_dict.data :
              /\ output_dict.data[i].media_id = filtered_media_dict[i].media_id
              /\ MatchesOf(filtered_media_dict[i].media_id) = {}
                     => output_dict.data[i].torrents = <<>>

\* C15: the command polled is the one search_media started: the id given to
\* get_command_status is the id of the search_media response.
C15_PollsSearchCommand ==
    (calls # <<>> /\ calls[Len(calls)].op = "get_command_status") =>
        /\ "id" \in DOMAIN searched
        /\ calls[Len(calls)].arg = searched.id

\* C17: the top-level torrent_custom_format_score of a reconciled entry is
\* the score of the last association seen for the entry's own item, and so
\* one of the values of its torrents mapping.
C17_ScoreOfOwnItem ==
    Reconciled =>
        \A i \in DOMAIN output_dict.data :
            LET e == output_dict.data[i]
                own == MatchesOf(e.media_id)
            IN  /\ own # {}
                /\ \E j \in own :
                      /\ \A h \in own : h <= j
                      /\ e.torrent_custom_format_score =
                             queue_dict[j].torrent_custom_format_score
                /\ \E t \in DOMAIN e.torrents :
                      e.torrents[t].value = e.torrent_custom_format_score

\* process_instance has returned from a non-dry run whose poll did not
\* report completion
NotReadyReturned ==
    /\ ~dry_run
    /\ pc = "loop"
    /\ cur # NoInstance
    /\ calls # <<>>
    /\ calls[Len(calls)].op = "get_command_status"
    /\ ~ready

\* C16: the queue is fetched only right after a poll that reported
\* completion; when the poll ends without completion the queue is not
\* fetched, the data list is empty and the selected items stay tagged.
C16_QueueOnlyWhenReady ==
    /\ pc = "get_queue" => ready
    /\ \A i \in DOMAIN calls :
          calls[i].op = "get_queue" =>
              /\ i > 1
              /\ calls[i - 1].op = "get_command_status"
              /\ calls[i - 1].instance = calls[i].instance
    /\ (calls # <<>> /\ calls[Len(calls)].op = "get_queue") => ready
    /\ NotReadyReturned =>
          /\ CallsAt(cur.instance, "get_queue") = {}
          /\ final_output_dict[Len(final_output_dict)].output # None
          /\ final_output_dict[Len(final_output_dict)].output.data = <<>>
          /\ \A m \in Range(media_ids) : CheckedTag \in tags[cur.instance][m]

\* C16 witness: a run with two selected items returned without completion.
C16_Witness ==
    /\ NotReadyReturned
    /\ Len(media_ids) >= 2

\* the batches selected for the instance of batches[j] after it
LaterBatches(j) ==
    {k \in DOMAIN batches : k > j /\ batches[k].instance = batches[j].instance}

\* the first of them: the next run of process_instance on that instance
NextBatch(j) == CHOOSE k \in LaterBatches(j) : \A h \in LaterBatches(j) : k <= h

\* the search of batches[k] has been triggered in the current run
SearchedInThisRun(k) ==
    /\ batches[k].run = run
    /\ k < Len(batches) \/ pc # "search_media"

\* C18: when a non-dry run is stopped between its search trigger and its
\* tag call, no item of its batch is tagged, and the next run on that
\* instance selects the same batch and triggers a search for it.
C18_StoppedBatchReselected ==
    \A j \in DOMAIN batches :
        batches[j].killed =>
            IF LaterBatches(j) = {}
            THEN \A m \in Range(batches[j].ids) :
                     CheckedTag \notin tags[batches[j].instance][m]
            ELSE /\ batches[NextBatch(j)].ids = batches[j].ids
                 /\ SearchedInThisRun(NextBatch(j)) =>
                       \E i \in DOMAIN calls :
                           /\ calls[i].op = "search_media"
                           /\ calls[i].instance = batches[j].instance
                           /\ calls[i].ids = batches[j].ids

\* C18 witness: a stopped run had a nonempty batch and the next run on the
\* instance has triggered its search.
C18_Witness ==
    \E j \in DOMAIN batches :
        /\ batches[j].killed
        /\ batches[j].ids # <<>>
        /\ LaterBatches(j) # {}
        /\ SearchedInThisRun(NextBatch(j))

====
